---- MODULE Spec2Model ----
(***************************************************************************)
(* Model of the account-rotation core of opencode-kiro-auth:               *)
(*   - AccountManager (src/src/plugin/accounts.ts): the in-memory pool,    *)
(*     its selection strategies and its health / rate-limit bookkeeping;   *)
(*   - the quota evaluator (src/unnamed/part_000, src/src/plugin/usage.ts);*)
(*   - the persistent store (src/src/plugin/storage.ts): two JSON files    *)
(*     shared by independent processes.                                    *)
(***************************************************************************)
EXTENDS Integers, Sequences, FiniteSets, TLC

VARIABLES
  accounts,   \* AccountManager.accounts: sequence of ManagedAccount records
  usage,      \* AccountManager.usage: function account id -> UsageMetadata
  cursor,     \* AccountManager.cursor
  strategy,   \* AccountManager.strategy
  now,        \* the wall clock read by Date.now()
  last,       \* observation: the last call, [op, id]; for getCurrentOrNext
              \* id is the id of the account returned (NoAccount for null)
  run,        \* observation: ids returned by the getCurrentOrNext calls made
              \* back to back since the last other call (the last MaxIds)
  added,      \* observation: ids passed to addAccount and not removed since
  prev,       \* observation, kept by the specifications that start it at
              \* NoPrev: the account the last getCurrentOrNext returned, if
              \* it is still the same pool entry, and the length of the
              \* filtered list of that call
  quota,      \* the account handed to checkQuotaStatus
  status,     \* the QuotaStatus it returned
  file,       \* the content found at each of the two storage paths
  lock,       \* the process holding the lock of each path (0: nobody)
  proc,       \* each process: the call it is in and where it stands in it
  completed,  \* observation: per path, the documents whose save has returned
  diskAccounts, \* the account document as this process last wrote or found it
  diskUsage     \* the usage document as this process last wrote or found it

poolVars == <<accounts, usage, cursor, strategy, now, last, run, added, prev>>
quotaVars == <<quota, status>>
storeVars == <<file, lock, proc, completed>>
diskVars == <<diskAccounts, diskUsage>>
nonPoolVars == <<quota, status, file, lock, proc, completed,
                 diskAccounts, diskUsage>>

vars == <<accounts, usage, cursor, strategy, now, last, run, added, prev,
          quota, status, file, lock, proc, completed,
          diskAccounts, diskUsage>>

-----------------------------------------------------------------------------
(* Bounds of the model *)

MaxIds == 2        \* account ids are 1..MaxIds
MaxTime == 2       \* the clock runs over 1..MaxTime
MaxRetry == 1      \* retryAfterMs is drawn from 1..MaxRetry
MaxUsed == 2       \* selections stop bumping usedCount at this value

-----------------------------------------------------------------------------
(* Values *)

\* an optional field that is undefined / deleted
NONE == -1

\* getCurrentOrNext returned null
NoAccount == 0

\* region used when the stored account has none
DEFAULT_REGION == 1

Ids == 1..MaxIds
Times == 1..MaxTime
Strategies == {"sticky", "round-robin", "lowest-usage"}

\* JavaScript truthiness of an optional number: undefined and 0 are falsy
Truthy(x) == x # NONE /\ x # 0

\* JavaScript `x || 0`
OrZero(x) == IF Truthy(x) THEN x ELSE 0

\* a freshly authenticated account as the OAuth flow hands it to addAccount
NewAccount(id) ==
  [ id |-> id, email |-> id, authMethod |-> 1, region |-> DEFAULT_REGION,
    profileArn |-> NONE, clientId |-> NONE, clientSecret |-> NONE,
    refreshToken |-> 1, accessToken |-> 1, expiresAt |-> 1,
    rateLimitResetTime |-> NONE, isHealthy |-> TRUE,
    unhealthyReason |-> NONE, recoveryTime |-> NONE,
    lastUsed |-> NONE, usedCount |-> NONE, limitCount |-> NONE,
    realEmail |-> NONE ]

\* Array.prototype.findIndex by id; 0 when absent (JavaScript's -1)
findIndex(accs, id) ==
  IF \E i \in 1..Len(accs) : accs[i].id = id
  THEN CHOOSE i \in 1..Len(accs) :
         accs[i].id = id /\ \A j \in 1..(i - 1) : accs[j].id # id
  ELSE 0

IdsOf(accs) == { accs[i].id : i \in 1..Len(accs) }

-----------------------------------------------------------------------------
(* Availability *)

\* accounts.ts:20-35
isAccountAvailable(account, t) ==
  IF ~account.isHealthy
  THEN Truthy(account.recoveryTime) /\ t >= account.recoveryTime
  ELSE ~(Truthy(account.rateLimitResetTime) /\ t < account.rateLimitResetTime)

\* accounts.ts:120-128, the branch of the filter callback that recovers
Recovers(account, t) ==
  ~account.isHealthy /\ Truthy(account.recoveryTime) /\ t >= account.recoveryTime

\* accounts.ts:119-135, the value the filter callback returns for one account
InFilter(account, t) ==
  IF ~account.isHealthy
  THEN Recovers(account, t)
  ELSE ~(Truthy(account.rateLimitResetTime) /\ t < account.rateLimitResetTime)

\* accounts.ts:122-124, the side effect of the filter callback on one account
AfterFilter(account, t) ==
  IF Recovers(account, t)
  THEN [account EXCEPT !.isHealthy = TRUE, !.unhealthyReason = NONE,
                       !.recoveryTime = NONE]
  ELSE account

\* the filter callback applied to the whole list: the list after recovery
Recovered(accs, t) == [i \in 1..Len(accs) |-> AfterFilter(accs[i], t)]

RECURSIVE FilterFrom(_, _, _)
FilterFrom(accs, t, i) ==
  IF i > Len(accs) THEN <<>>
  ELSE IF InFilter(accs[i], t) THEN <<i>> \o FilterFrom(accs, t, i + 1)
  ELSE FilterFrom(accs, t, i + 1)

\* availableAccounts, as the full-list positions of its members, in order
availableAccounts(accs, t) == FilterFrom(accs, t, 1)

-----------------------------------------------------------------------------
(* Selection *)

\* a selection that stamps lastUsed and leaves the counter alone
BumpNoCount(account, t) == [account EXCEPT !.lastUsed = t]

\* lastUsed = now; usedCount = (usedCount || 0) + 1
Bump(account, t) ==
  [account EXCEPT !.lastUsed = t, !.usedCount = OrZero(@) + 1]

\* the comparator of the lowest-usage sort: negative, zero or positive
compareUsage(a, b) ==
  IF OrZero(a.usedCount) # OrZero(b.usedCount)
  THEN OrZero(a.usedCount) - OrZero(b.usedCount)
  ELSE OrZero(a.lastUsed) - OrZero(b.lastUsed)

\* sorted[0] of the stable sort: the first position of avail whose account no
\* other member of avail precedes under the comparator
sortedFirst(accs, avail) ==
  CHOOSE k \in 1..Len(avail) :
    /\ \A j \in 1..Len(avail) : compareUsage(accs[avail[k]], accs[avail[j]]) <= 0
    /\ \A j \in 1..(k - 1) : compareUsage(accs[avail[j]], accs[avail[k]]) # 0

\* The position picked by the strategy, given the list after the filter ran
\* (accs), the filtered positions (avail), the cursor, and the clock value the
\* sticky branch reads a second time through isAccountAvailable (t2).
\* Result: [pick |-> full-list position, cursor |-> new cursor]
stickyPick(accs, avail, cur, t2) ==
  IF cur + 1 <= Len(accs) /\ isAccountAvailable(accs[cur + 1], t2)
  THEN [pick |-> cur + 1, cursor |-> cur]
  ELSE [pick |-> avail[1], cursor |-> avail[1] - 1]

\* a round-robin that leaves the cursor where it finds it
roundRobinPickStay(accs, avail, cur) ==
  [pick |-> avail[(cur % Len(avail)) + 1], cursor |-> cur]

roundRobinPick(accs, avail, cur) ==
  [pick |-> avail[(cur % Len(avail)) + 1], cursor |-> (cur + 1) % Len(avail)]

lowestUsagePick(accs, avail, cur) ==
  [pick |-> avail[sortedFirst(accs, avail)],
   cursor |-> avail[sortedFirst(accs, avail)] - 1]

strategyPick(strat, accs, avail, cur, t2) ==
  CASE strat = "sticky" -> stickyPick(accs, avail, cur, t2)
    [] strat = "round-robin" -> roundRobinPick(accs, avail, cur)
    [] strat = "lowest-usage" -> lowestUsagePick(accs, avail, cur)

-----------------------------------------------------------------------------
(* Operations of AccountManager *)

\* what the observation variables record of a call
Observe(op, id) == [op |-> op, id |-> id]

\* no getCurrentOrNext has returned an account that is still the same entry
NoPrev == [id |-> NoAccount, n |-> 0]

\* the specification does not keep the observation prev
Untracked == [id |-> NONE, n |-> 0]

\* the value prev takes when the call observed p
Track(p) == IF prev = Untracked THEN Untracked ELSE p

\* the last MaxIds entries of a sequence
LastN(s) == IF Len(s) <= MaxIds THEN s ELSE SubSeq(s, Len(s) - MaxIds + 1, Len(s))

\* getCurrentOrNext(): `now` is the clock read at entry, t2 the clock read by
\* isAccountAvailable in the sticky branch (now <= t2)
GetCurrentOrNext(t2) ==
  LET avail == availableAccounts(accounts, now)
      accs  == Recovered(accounts, now)
  IN IF Len(avail) = 0
     THEN /\ accounts' = accs
          /\ last' = Observe("select", NoAccount)
          /\ run' = <<>>
          /\ prev' = Track(NoPrev)
          /\ UNCHANGED <<usage, cursor, strategy, now, added>>
     ELSE LET p == strategyPick(strategy, accs, avail, cursor, t2)
          IN /\ OrZero(accs[p.pick].usedCount) < MaxUsed
             /\ accounts' = [accs EXCEPT ![p.pick] = Bump(@, now)]
             /\ cursor' = p.cursor
             /\ last' = Observe("select", accs[p.pick].id)
             /\ run' = LastN(Append(run, accs[p.pick].id))
             /\ prev' = Track([id |-> accs[p.pick].id, n |-> Len(avail)])
             /\ now' = IF strategy = "sticky" THEN t2 ELSE now
             /\ UNCHANGED <<usage, strategy, added>>

Select ==
  /\ \E t2 \in {now, now + 1} :
       /\ t2 <= MaxTime
       /\ (strategy # "sticky" => t2 = now)
       /\ GetCurrentOrNext(t2)
  /\ UNCHANGED nonPoolVars

\* time passes between two calls
Tick ==
  /\ now < MaxTime
  /\ now' = now + 1
  /\ last' = Observe("tick", NoAccount)
  /\ run' = <<>>
  /\ prev' = prev
  /\ UNCHANGED <<accounts, usage, cursor, strategy, added>>
  /\ UNCHANGED nonPoolVars

\* a markUnhealthy that keeps the recovery time it finds when given none
markedUnhealthyKeep(account, reason, recoveryTime) ==
  [account EXCEPT !.isHealthy = FALSE,
                  !.unhealthyReason = reason,
                  !.recoveryTime = IF recoveryTime = NONE THEN @
                                   ELSE recoveryTime]

\* the account markUnhealthy leaves
markedUnhealthy(account, reason, recoveryTime) ==
  [account EXCEPT !.isHealthy = FALSE,
                  !.unhealthyReason = reason,
                  !.recoveryTime = recoveryTime]

\* markUnhealthy(account, reason, recoveryTime?); the observation keeps the
\* recoveryTime argument as well
MarkUnhealthy(id, reason, recoveryTime) ==
  LET i == findIndex(accounts, id)
  IN /\ accounts' = IF i = 0 THEN accounts
                    ELSE [accounts EXCEPT ![i] =
                            markedUnhealthy(@, reason, recoveryTime)]
     /\ last' = [op |-> "markUnhealthy", id |-> id, arg |-> recoveryTime]
     /\ run' = <<>>
     /\ prev' = prev
     /\ UNCHANGED <<usage, cursor, strategy, now, added>>
     /\ UNCHANGED nonPoolVars

\* markRateLimited(account, retryAfterMs)
MarkRateLimited(id, retryAfterMs) ==
  LET i == findIndex(accounts, id)
  IN /\ accounts' = IF i = 0 THEN accounts
                    ELSE [accounts EXCEPT ![i] =
                            [@ EXCEPT !.rateLimitResetTime = now + retryAfterMs]]
     /\ last' = Observe("markRateLimited", id)
     /\ run' = <<>>
     /\ prev' = prev
     /\ UNCHANGED <<usage, cursor, strategy, now, added>>
     /\ UNCHANGED nonPoolVars

\* addAccount that pushes without looking for the id
addAccountPush(accs, account) == Append(accs, account)

\* the list addAccount leaves
addAccount(accs, account) ==
  IF findIndex(accs, account.id) = 0
  THEN Append(accs, account)
  ELSE [accs EXCEPT ![findIndex(accs, account.id)] = account]

AddAccount(account) ==
  /\ accounts' = addAccount(accounts, account)
  /\ last' = Observe("addAccount", account.id)
  /\ run' = <<>>
  /\ prev' = prev
  /\ added' = added \cup {account.id}
  /\ UNCHANGED <<usage, cursor, strategy, now>>
  /\ UNCHANGED nonPoolVars

\* accounts.filter((a) => a.id !== account.id)
RECURSIVE removeById(_, _)
removeById(accs, id) ==
  IF accs = <<>> THEN <<>>
  ELSE IF Head(accs).id # id THEN <<Head(accs)>> \o removeById(Tail(accs), id)
  ELSE removeById(Tail(accs), id)

\* a removeAccount that leaves the cursor where it is
clampCursorNot(cur, len) == cur

\* the cursor removeAccount leaves, given the list it leaves
clampCursor(cur, len) ==
  IF cur >= len /\ len > 0 THEN len - 1
  ELSE IF len = 0 THEN 0
  ELSE cur

\* removeAccount(account)
RemoveAccount(id) ==
  /\ accounts' = removeById(accounts, id)
  /\ usage' = [k \in (DOMAIN usage) \ {id} |-> usage[k]]
  /\ cursor' = clampCursor(cursor, Len(removeById(accounts, id)))
  /\ last' = Observe("removeAccount", id)
  /\ run' = <<>>
  /\ prev' = IF prev.id = id THEN NoPrev ELSE prev
  /\ added' = added \ {id}
  /\ UNCHANGED <<strategy, now>>
  /\ UNCHANGED nonPoolVars

-----------------------------------------------------------------------------
(* The persistent store: values *)

NumProcs == 2      \* independent processes sharing the two files
MaxOps == 1        \* calls (saveToDisk / loadFromDisk) each process makes

\* retries of lockfile.lock after the first attempt
LOCK_RETRIES == 5
\* LOCK_OPTIONS.stale: milliseconds after which a lock that was not refreshed
\* counts as abandoned
LOCK_STALE == 10000

Procs == 1..NumProcs

\* getStoragePath() and getUsagePath()
Paths == {"accounts", "usage"}

\* what a path can hold
Absent == [kind |-> "absent", by |-> 0, n |-> 0]
\* created or truncated by an open for writing, nothing written yet
Empty == [kind |-> "empty", by |-> 0, n |-> 0]
\* the default document ensureFileExists writes
DefaultDoc == [kind |-> "default", by |-> 0, n |-> 0]
\* the document process p passes to the save of its k-th call
Doc(p, k) == [kind |-> "doc", by |-> p, n |-> k]

\* nothing read yet
NoRead == [kind |-> "none", by |-> 0, n |-> 0]

\* a process and its observations: failed, the call threw; cause, what made
\* it throw; err, the locked function threw and the error is on its way out;
\* clobbered, the call wrote in place over a saved document at its path;
\* relFailed, the paths whose release() threw during the call; stale, the
\* paths whose lock this process holds and has not refreshed for LOCK_STALE
\* milliseconds; lost, the paths whose lock was ever taken from this process
\* while it was inside withFileLock; at, the step a crashed process had
\* reached; wrote, the paths the call has written to, in place or by rename;
\* call, the call the process is making or made last
IdleProc ==
  [op |-> "idle", path |-> "accounts", pc |-> "idle", fd |-> FALSE,
   tries |-> 0, n |-> 0, failed |-> FALSE, cause |-> "none", err |-> FALSE,
   clobbered |-> FALSE, relFailed |-> {}, stale |-> {}, lost |-> {},
   at |-> "idle", wrote |-> {}, call |-> "none",
   buf |-> [f \in Paths |-> NoRead], doc |-> [f \in Paths |-> NoRead]]

\* a document file that does not exist
NoFile == [exists |-> FALSE]

InitStoreIdle ==
  /\ file = [f \in Paths |-> Absent]
  /\ lock = [f \in Paths |-> 0]
  /\ proc = [q \in Procs |-> IdleProc]
  /\ completed = [f \in Paths |-> {}]
  /\ diskAccounts = NoFile
  /\ diskUsage = NoFile

-----------------------------------------------------------------------------
(* The pool specification: a freshly installed pool (both documents empty)  *)
(* under any strategy, driven by any sequence of calls.                     *)

InitQuotaIdle ==
  /\ quota = [usedCount |-> NONE, limitCount |-> NONE]
  /\ status = "none"

InitPool ==
  /\ accounts = <<>>
  /\ usage = <<>>
  /\ cursor = 0
  /\ now = 1
  /\ last = Observe("new", NoAccount)
  /\ run = <<>>
  /\ prev = Untracked
  /\ added = {}

Init ==
  /\ InitPool
  /\ strategy \in Strategies
  /\ InitQuotaIdle
  /\ InitStoreIdle

Next ==
  \/ Select
  \/ Tick
  \/ \E id \in Ids : \E rt \in {NONE} \cup Times : MarkUnhealthy(id, 1, rt)
  \/ \E id \in Ids : \E ms \in 1..MaxRetry : MarkRateLimited(id, ms)
  \/ \E id \in Ids : AddAccount(NewAccount(id))
  \/ \E id \in Ids : RemoveAccount(id)

Spec == Init /\ [][Next]_vars

-----------------------------------------------------------------------------
(* Properties of selection *)

\* the availability predicate as specified: (healthy, or a recovery time that
\* has passed) and (no rate-limit reset time, or one that has passed)
Eligible(account, t) ==
  /\ (account.isHealthy
        \/ (account.recoveryTime # NONE /\ t >= account.recoveryTime))
  /\ (account.rateLimitResetTime = NONE \/ t >= account.rateLimitResetTime)

\* full-list positions of the accounts eligible at t
EligiblePositions(accs, t) == { i \in 1..Len(accs) : Eligible(accs[i], t) }

EligibleIds(accs, t) == { accs[i].id : i \in EligiblePositions(accs, t) }

\* the last call was a getCurrentOrNext that returned an account
Returned == last.op = "select" /\ last.id # NoAccount

\* C1: an account returned by getCurrentOrNext is healthy or past its recovery
\* time, and its rate-limit reset time is unset or has passed, at the instant
\* the call ends.
C1_ReturnedIsEligible ==
  Returned => Eligible(accounts[findIndex(accounts, last.id)], now)

\* C2: for every account and time, isAccountAvailable is true exactly when the
\* account is (healthy or past its recovery time) and (not rate limited or past
\* its reset time).
C2_AvailableIffEligible ==
  \A i \in 1..Len(accounts) :
    isAccountAvailable(accounts[i], now) <=> Eligible(accounts[i], now)

\* C3: under sticky, a call returns the account at the cursor and keeps the
\* cursor while that account is eligible; otherwise it returns the first
\* eligible account in list order and moves the cursor to it. (An account at
\* the cursor that becomes eligible while the call runs counts as eligible.)
C3_Sticky ==
  [][ (strategy = "sticky" /\ last'.op = "select" /\ last'.id # NoAccount) =>
        LET c == cursor + 1
            E == EligiblePositions(accounts, now)
        IN IF c \in E
           THEN last'.id = accounts[c].id /\ cursor' = cursor
           ELSE \/ E = {}
                \/ /\ c <= Len(accounts)
                   /\ Eligible(accounts[c], now')
                   /\ last'.id = accounts[c].id
                   /\ cursor' = cursor
                \/ \E f \in E :
                     /\ \A j \in E : f <= j
                     /\ last'.id = accounts[f].id
                     /\ cursor' = f - 1 ]_vars

\* C4: under round-robin, with N >= 1 accounts eligible, the last N of the
\* calls made back to back returned N different eligible accounts.
C4_RoundRobinVisitsEach ==
  strategy = "round-robin" =>
    LET E == EligibleIds(accounts, now)
        n == IF Len(run) < Cardinality(E) THEN Len(run) ELSE Cardinality(E)
        w == SubSeq(run, Len(run) - n + 1, Len(run))
    IN (run # <<>> /\ E # {}) =>
         /\ \A k \in 1..Len(run) : run[k] \in E
         /\ \A j, k \in 1..n : j # k => w[j] # w[k]

\* C5: under lowest-usage, when some account is eligible, the account
\* returned is eligible, no eligible
\* account has a smaller usedCount, none with the same usedCount has a smaller
\* lastUsed, and the cursor is left on its full-list index.
C5_LowestUsage ==
  [][ (strategy = "lowest-usage" /\ last'.op = "select" /\ last'.id # NoAccount) =>
        LET E == EligiblePositions(accounts, now)
            w == findIndex(accounts, last'.id)
        IN E # {} =>
           /\ w \in E
           /\ \A j \in E :
                \/ OrZero(accounts[w].usedCount) < OrZero(accounts[j].usedCount)
                \/ /\ OrZero(accounts[w].usedCount) = OrZero(accounts[j].usedCount)
                   /\ OrZero(accounts[w].lastUsed) <= OrZero(accounts[j].lastUsed)
           /\ cursor' = w - 1 ]_vars

-----------------------------------------------------------------------------
(* Properties of addAccount / removeAccount *)

\* C6: ids in the pool are unique and are exactly the ids added and not removed
\* since; adding an id already present replaces that account where it stands.
C6_UpsertRemove ==
  [][ /\ Cardinality(IdsOf(accounts')) = Len(accounts')
      /\ IdsOf(accounts') = added'
      /\ (last'.op = "addAccount" /\ last'.id \in IdsOf(accounts)) =>
           /\ Len(accounts') = Len(accounts)
           /\ \A i \in 1..Len(accounts) :
                accounts'[i] = IF accounts[i].id = last'.id
                               THEN NewAccount(last'.id)
                               ELSE accounts[i] ]_vars

\* an id that stood first of two was added again
C6_Witness ==
  /\ last.op = "addAccount"
  /\ Len(accounts) = 2
  /\ accounts[1].id = last.id
  /\ added = {1, 2}

-----------------------------------------------------------------------------
(* Quota evaluator *)

MaxCount == 45     \* usedCount and limitCount are drawn from 0..MaxCount

\* the counts of the documented examples (used=80, limit=100)
ExampleCounts == {80, 100}

QuotaValues == {NONE} \cup (0..MaxCount) \cup ExampleCounts

WARNING_THRESHOLD_PERCENT == 80

\* Math.round(n / d) for n >= 0, d > 0: the nearest integer, halves upwards
MathRoundFloor(n, d) == n \div d

MathRound(n, d) == (2 * n + d) \div (2 * d)

\* usage.ts:97-99
isQuotaExhausted(u) == u.usedCount >= u.limitCount

\* usage.ts:101-106
calculateUsagePercentage(u) ==
  IF ~Truthy(u.limitCount) \/ u.limitCount <= 0
  THEN 0
  ELSE MathRound(u.usedCount * 100, u.limitCount)

\* part_000:60-80
checkQuotaStatus(account) ==
  IF ~Truthy(account.usedCount) \/ ~Truthy(account.limitCount)
  THEN "healthy"
  ELSE IF isQuotaExhausted(account)
  THEN "exhausted"
  ELSE IF calculateUsagePercentage(account) >= WARNING_THRESHOLD_PERCENT
  THEN "warning"
  ELSE "healthy"

InitQuota ==
  /\ InitPool
  /\ strategy = "sticky"
  /\ quota \in [usedCount : QuotaValues, limitCount : QuotaValues]
  /\ status = "none"
  /\ InitStoreIdle

Classify ==
  /\ status = "none"
  /\ status' = checkQuotaStatus(quota)
  /\ UNCHANGED quota
  /\ UNCHANGED poolVars
  /\ UNCHANGED storeVars
  /\ UNCHANGED diskVars

NextQuota == Classify

SpecQuota == InitQuota /\ [][NextQuota]_vars

\* an absent count read as a number
Count(x) == IF x = NONE THEN 0 ELSE x

\* C10 as claimed: healthy when both counts are absent or zero; otherwise
\* exhausted iff usedCount >= limitCount; otherwise warning iff the rounded
\* percentage is at least 80; otherwise healthy. (A comparison with an absent
\* count is false, as in JavaScript.)
C10_AsClaimed ==
  status # "none" =>
    LET u == quota.usedCount
        l == quota.limitCount
    IN status = IF ~Truthy(u) /\ ~Truthy(l) THEN "healthy"
                ELSE IF u # NONE /\ l # NONE /\ u >= l THEN "exhausted"
                ELSE IF u # NONE /\ l # NONE /\ 200 * u >= 159 * l THEN "warning"
                ELSE "healthy"

\* C10, amended: healthy when usedCount or limitCount is absent or zero;
\* otherwise exhausted iff usedCount >= limitCount; otherwise warning iff
\* usedCount / limitCount * 100 rounds to 80 or more (usedCount / limitCount >=
\* 0.795); otherwise healthy. used=80, limit=100 is warning and used=100,
\* limit=100 is exhausted.
C10_Classify ==
  status # "none" =>
    LET u == Count(quota.usedCount)
        l == Count(quota.limitCount)
    IN /\ status = IF u = 0 \/ l = 0 THEN "healthy"
                   ELSE IF u >= l THEN "exhausted"
                   ELSE IF 200 * u >= 159 * l THEN "warning"
                   ELSE "healthy"
       /\ (u = 80 /\ l = 100) => status = "warning"
       /\ (u = 100 /\ l = 100) => status = "exhausted"

\* a used count with no limit was classified
C10_Witness ==
  /\ status = "healthy"
  /\ quota.usedCount = 5
  /\ quota.limitCount \in {NONE, 0}

-----------------------------------------------------------------------------
(* The persistent store: the steps of saveToDisk and loadFromDisk, one       *)
(* action per file-system or lock call, interleaved across processes.        *)

\* where a call goes once it is through with one path: saveToDisk and
\* loadFromDisk handle the account document first, the usage document second
NextPath(q) ==
  IF proc[q].path = "accounts"
  THEN [proc[q] EXCEPT !.path = "usage", !.pc = "access", !.tries = 0,
                       !.clobbered = FALSE]
  ELSE [proc[q] EXCEPT !.op = "idle", !.pc = "idle", !.path = "accounts",
                       !.tries = 0]

\* an error that is logged and not thrown again: the call goes on
ThrownGoesOn(q, cause) == NextPath(q)

\* the call throws: it is over, whatever was left to do is skipped
Thrown(q, cause) ==
  [proc[q] EXCEPT !.op = "idle", !.pc = "idle", !.tries = 0, !.err = FALSE,
                  !.failed = TRUE, !.cause = cause]

StoreFrame == UNCHANGED <<poolVars, quotaVars, diskVars>>

\* a process calls saveToDisk()
StartFlush(q) ==
  /\ proc[q].op = "idle"
  /\ proc[q].n < MaxOps
  /\ proc' = [proc EXCEPT ![q] = [@ EXCEPT !.op = "flush", !.call = "flush",
                                           !.path = "accounts",
                                           !.pc = "access", !.n = @ + 1,
                                           !.failed = FALSE, !.cause = "none",
                                           !.err = FALSE, !.clobbered = FALSE,
                                           !.relFailed = {}, !.wrote = {}]]
  /\ UNCHANGED <<file, lock, completed>>
  /\ StoreFrame

\* a process calls loadFromDisk()
StartLoad(q) ==
  /\ proc[q].op = "idle"
  /\ proc[q].n < MaxOps
  /\ proc' = [proc EXCEPT ![q] = [@ EXCEPT !.op = "load", !.call = "load",
                                           !.path = "accounts",
                                           !.pc = "access", !.n = @ + 1,
                                           !.failed = FALSE, !.cause = "none",
                                           !.err = FALSE, !.clobbered = FALSE,
                                           !.relFailed = {}, !.wrote = {},
                                           !.buf = [f \in Paths |-> NoRead],
                                           !.doc = [f \in Paths |-> NoRead]]]
  /\ UNCHANGED <<file, lock, completed>>
  /\ StoreFrame

\* the step after ensureFileExists: lock for a save, read for a load
AfterEnsure(q) == IF proc[q].op = "flush" THEN "lock" ELSE "read"

\* ensureFileExists: fs.access(path)
Access(q) ==
  /\ proc[q].pc = "access"
  /\ proc' = [proc EXCEPT ![q].pc =
                IF file[proc[q].path] # Absent THEN AfterEnsure(q) ELSE "create"]
  /\ UNCHANGED <<file, lock, completed>>
  /\ StoreFrame

\* ensureFileExists: fs.writeFile(path, default) opens the path for writing,
\* which creates or truncates the file in place
Create(q) ==
  /\ proc[q].pc = "create"
  /\ file' = [file EXCEPT ![proc[q].path] = Empty]
  /\ proc' = [proc EXCEPT ![q] =
                [@ EXCEPT !.pc = "fill", !.fd = TRUE,
                          !.wrote = @ \cup {proc[q].path},
                          !.clobbered = file[proc[q].path].kind = "doc"]]
  /\ UNCHANGED <<lock, completed>>
  /\ StoreFrame

\* ensureFileExists: fs.writeFile(path, default) writes the default document
\* to the file it opened, which is no longer the one at the path when a rename
\* replaced it meanwhile
Fill(q) ==
  /\ proc[q].pc = "fill"
  /\ file' = IF proc[q].fd THEN [file EXCEPT ![proc[q].path] = DefaultDoc]
             ELSE file
  /\ proc' = [proc EXCEPT ![q] = [@ EXCEPT !.pc = AfterEnsure(q), !.fd = FALSE]]
  /\ UNCHANGED <<lock, completed>>
  /\ StoreFrame

\* a lock that is taken whatever its age
canAcquireAnyAge(f) == TRUE

\* lockfile.lock with LOCK_OPTIONS.stale: the lock of a path can be acquired
\* when nobody holds it or when the one held is older than LOCK_STALE
canAcquire(f) == lock[f] = 0 \/ f \in proc[lock[f]].stale

\* inside the function withFileLock runs under the lock of path f: the
\* temporary-file write and the rename
InSection(q, f) == proc[q].path = f /\ proc[q].pc \in {"temp", "rename"}

\* between lockfile.lock and the end of the finally block of withFileLock
InWithLock(q, f) == proc[q].path = f /\ proc[q].pc \in {"temp", "rename", "release"}

\* the processes once q has acquired the lock of its path: a former holder
\* loses it, and is noted when it was still inside withFileLock
Acquired(q) ==
  LET f == proc[q].path
      h == lock[f]
  IN [r \in Procs |->
        IF r = q
        THEN [proc[q] EXCEPT !.pc = "temp", !.tries = 0, !.stale = @ \ {f}]
        ELSE IF r = h
        THEN [proc[r] EXCEPT !.stale = @ \ {f},
                             !.lost = IF InWithLock(r, f) THEN @ \cup {f} ELSE @]
        ELSE proc[r]]

\* withFileLock: lockfile.lock(path, LOCK_OPTIONS), one attempt; the call
\* fails once LOCK_RETRIES retries have found the lock held
Lock(q) ==
  /\ proc[q].pc = "lock"
  /\ IF canAcquire(proc[q].path)
     THEN /\ lock' = [lock EXCEPT ![proc[q].path] = q]
          /\ proc' = Acquired(q)
     ELSE /\ lock' = lock
          /\ proc' = [proc EXCEPT ![q] =
                        IF proc[q].tries < LOCK_RETRIES
                        THEN [@ EXCEPT !.tries = @ + 1]
                        ELSE Thrown(q, "lock")]
  /\ UNCHANGED <<file, completed>>
  /\ StoreFrame

\* saveAccounts / saveUsage: fs.writeFile(tempPath, document)
Temp(q) ==
  /\ proc[q].pc = "temp"
  /\ proc' = [proc EXCEPT ![q].pc = "rename"]
  /\ UNCHANGED <<file, lock, completed>>
  /\ StoreFrame

\* saveAccounts / saveUsage: fs.rename(tempPath, path) puts the temporary file
\* at the path; files opened at the path before keep the replaced file
Rename(q) ==
  /\ proc[q].pc = "rename"
  /\ file' = [file EXCEPT ![proc[q].path] = Doc(q, proc[q].n)]
  /\ proc' = [r \in Procs |->
                IF r = q THEN [proc[q] EXCEPT !.pc = "release",
                                              !.wrote = @ \cup {proc[q].path}]
                ELSE IF proc[r].path = proc[q].path
                THEN [proc[r] EXCEPT !.fd = FALSE]
                ELSE proc[r]]
  /\ UNCHANGED <<lock, completed>>
  /\ StoreFrame

\* saveAccounts / saveUsage: fs.writeFile(tempPath) or fs.rename throws; the
\* finally block of withFileLock is next
FnFails(q) ==
  /\ proc[q].pc \in {"temp", "rename"}
  /\ proc' = [proc EXCEPT ![q] = [@ EXCEPT !.pc = "release", !.err = TRUE]]
  /\ UNCHANGED <<file, lock, completed>>
  /\ StoreFrame

\* a finally block that is skipped when the locked function threw
AfterReleaseNoFinally(q, released) ==
  [f \in Paths |-> IF f = proc[q].path /\ released /\ ~proc[q].err
                   THEN 0 ELSE lock[f]]

\* withFileLock: the lock of each path once the finally block has run;
\* released tells whether release() did its work
AfterRelease(q, released) ==
  [f \in Paths |-> IF f = proc[q].path /\ released THEN 0 ELSE lock[f]]

\* a catch block that drops the error of the locked function: the save goes on
OutcomeSwallow(q) == NextPath(q)

\* withFileLock: what the caller gets once the finally block has run: the
\* error of the locked function if it threw, else its result, and the save
\* goes on
Outcome(q) ==
  IF proc[q].err THEN Thrown(q, "fn") ELSE NextPath(q)

\* withFileLock: release() in the finally block succeeds; withFileLock returns
Release(q) ==
  /\ proc[q].pc = "release"
  /\ lock' = AfterRelease(q, TRUE)
  /\ completed' = IF proc[q].err THEN completed
                  ELSE [completed EXCEPT ![proc[q].path] =
                          @ \cup {Doc(q, proc[q].n)}]
  /\ proc' = [proc EXCEPT ![q] = Outcome(q)]
  /\ UNCHANGED file
  /\ StoreFrame

\* withFileLock: release() in the finally block throws; the error is logged
\* and dropped. Whether the lock is gone by then is up to the lock library.
ReleaseFails(q) ==
  /\ proc[q].pc = "release"
  /\ \E released \in BOOLEAN : lock' = AfterRelease(q, released)
  /\ completed' = IF proc[q].err THEN completed
                  ELSE [completed EXCEPT ![proc[q].path] =
                          @ \cup {Doc(q, proc[q].n)}]
  /\ proc' = [proc EXCEPT ![q] = [Outcome(q) EXCEPT !.relFailed = @ \cup {proc[q].path}]]
  /\ UNCHANGED file
  /\ StoreFrame

\* loadAccounts / loadUsage: JSON.parse(content), the catch block returning
\* the default document when the content does not parse
parseOrDefault(content) == IF content = Empty THEN DefaultDoc ELSE content

\* loadAccounts / loadUsage: fs.readFile(path) and JSON.parse; buf keeps the
\* content read, doc the document returned
Read(q) ==
  /\ proc[q].pc = "read"
  /\ proc' = [proc EXCEPT ![q] =
                [NextPath(q) EXCEPT
                   !.buf[proc[q].path] = file[proc[q].path],
                   !.doc[proc[q].path] = parseOrDefault(file[proc[q].path])]]
  /\ UNCHANGED <<file, lock, completed>>
  /\ StoreFrame

InitStore ==
  /\ InitPool
  /\ strategy = "sticky"
  /\ InitQuotaIdle
  /\ InitStoreIdle

NextStore ==
  \/ \E q \in Procs : StartFlush(q)
  \/ \E q \in Procs : StartLoad(q)
  \/ \E q \in Procs : Access(q)
  \/ \E q \in Procs : Create(q)
  \/ \E q \in Procs : Fill(q)
  \/ \E q \in Procs : Lock(q)
  \/ \E q \in Procs : Temp(q)
  \/ \E q \in Procs : Rename(q)
  \/ \E q \in Procs : FnFails(q)
  \/ \E q \in Procs : Release(q)
  \/ \E q \in Procs : ReleaseFails(q)
  \/ \E q \in Procs : Read(q)

SpecStore == InitStore /\ [][NextStore]_vars

\* LOCK_OPTIONS.stale: the lock q holds on path f has gone LOCK_STALE
\* milliseconds without a refresh, whether q is stalled, gone, or left the
\* lock behind when release() failed
Expire(q, f) ==
  /\ lock[f] = q
  /\ f \notin proc[q].stale
  /\ proc' = [proc EXCEPT ![q].stale = @ \cup {f}]
  /\ UNCHANGED <<file, lock, completed>>
  /\ StoreFrame

\* the process dies in the middle of saveToDisk or loadFromDisk: nothing it
\* had left to do happens, the locks it holds stay behind
Crash(q) ==
  /\ proc[q].op \in {"flush", "load"}
  /\ proc' = [proc EXCEPT ![q] = [@ EXCEPT !.op = "crashed", !.pc = "dead",
                                           !.at = proc[q].pc, !.fd = FALSE]]
  /\ UNCHANGED <<file, lock, completed>>
  /\ StoreFrame

\* the store with processes that stall or die and locks that go stale
NextLock ==
  \/ NextStore
  \/ \E q \in Procs : \E f \in Paths : Expire(q, f)
  \/ \E q \in Procs : Crash(q)

SpecLock == InitStore /\ [][NextLock]_vars

\* no call is in progress
Quiescent == \A q \in Procs : proc[q].op = "idle"

\* C8: once the concurrent saves and loads have all returned, a file that was
\* saved holds exactly the document of one of the completed saves.
C8_FinalContentIsASave ==
  \A f \in Paths :
    (Quiescent /\ completed[f] # {}) => file[f] \in completed[f]

\* C9: a load only ever reads a complete document from a path, never a file
\* that a writer has opened and not yet written.
C9_ReadsCompleteDocument ==
  \A q \in Procs : \A f \in Paths : proc[q].buf[f] # Empty

-----------------------------------------------------------------------------
(* Usage sync, credential refresh, and the two documents *)

MaxPersistIds == 1   \* account ids 1..MaxPersistIds in the persistence runs

PersistIds == 1..MaxPersistIds

\* 'builder-id@aws.amazon.com', the anonymous address updateFromAuth ignores
BUILDER_ID_EMAIL == 9

\* snapshots the usage fetcher hands to updateUsage
Snapshots == [usedCount : {1}, limitCount : {2}, realEmail : {NONE, 1}]

\* refreshed details handed to updateFromAuth, the refresh token decoded
AuthDetails ==
  [access : {2}, expires : {2}, email : {NONE, BUILDER_ID_EMAIL, 2},
   refreshToken : {2}, profileArn : {NONE, 1}, clientId : {NONE}]

\* updateUsage(accountId, metadata)
UpdateUsage(id, metadata) ==
  LET i == findIndex(accounts, id)
  IN /\ accounts' =
          IF i = 0 THEN accounts
          ELSE [accounts EXCEPT ![i] =
                  [@ EXCEPT !.usedCount = metadata.usedCount,
                            !.limitCount = metadata.limitCount,
                            !.realEmail = IF Truthy(metadata.realEmail)
                                          THEN metadata.realEmail ELSE @]]
     /\ usage' = [k \in (DOMAIN usage) \cup {id} |->
                    IF k = id
                    THEN [usedCount |-> metadata.usedCount,
                          limitCount |-> metadata.limitCount,
                          realEmail |-> metadata.realEmail,
                          lastSync |-> now]
                    ELSE usage[k]]
     /\ last' = Observe("updateUsage", id)
     /\ run' = <<>>
     /\ prev' = prev
     /\ UNCHANGED <<cursor, strategy, now, added>>
     /\ UNCHANGED nonPoolVars

\* updateFromAuth(account, auth)
UpdateFromAuth(id, auth) ==
  LET i == findIndex(accounts, id)
  IN /\ accounts' =
          IF i = 0 THEN accounts
          ELSE [accounts EXCEPT ![i] =
                  [@ EXCEPT !.accessToken = auth.access,
                            !.expiresAt = auth.expires,
                            !.lastUsed = now,
                            !.realEmail = IF Truthy(auth.email)
                                             /\ auth.email # BUILDER_ID_EMAIL
                                          THEN auth.email ELSE @,
                            !.refreshToken = auth.refreshToken,
                            !.profileArn = IF Truthy(auth.profileArn)
                                           THEN auth.profileArn ELSE @,
                            !.clientId = IF Truthy(auth.clientId)
                                         THEN auth.clientId ELSE @]]
     /\ last' = Observe("updateFromAuth", id)
     /\ run' = <<>>
     /\ prev' = prev
     /\ UNCHANGED <<usage, cursor, strategy, now, added>>
     /\ UNCHANGED nonPoolVars

\* saveToDisk: the metadata entry that drops recoveryTime
accountMetadataNoRecovery(account) ==
  [ id |-> account.id, email |-> account.email,
    authMethod |-> account.authMethod, region |-> account.region,
    profileArn |-> account.profileArn, clientId |-> account.clientId,
    clientSecret |-> account.clientSecret,
    refreshToken |-> account.refreshToken,
    accessToken |-> account.accessToken, expiresAt |-> account.expiresAt,
    rateLimitResetTime |-> account.rateLimitResetTime,
    isHealthy |-> account.isHealthy,
    unhealthyReason |-> account.unhealthyReason,
    recoveryTime |-> NONE ]

\* saveToDisk: the AccountMetadata entry written for one account
accountMetadata(account) ==
  [ id |-> account.id, email |-> account.email,
    authMethod |-> account.authMethod, region |-> account.region,
    profileArn |-> account.profileArn, clientId |-> account.clientId,
    clientSecret |-> account.clientSecret,
    refreshToken |-> account.refreshToken,
    accessToken |-> account.accessToken, expiresAt |-> account.expiresAt,
    rateLimitResetTime |-> account.rateLimitResetTime,
    isHealthy |-> account.isHealthy,
    unhealthyReason |-> account.unhealthyReason,
    recoveryTime |-> account.recoveryTime ]

\* the document saveToDisk passes to saveAccounts
AccountDocument(accs, cur) ==
  [ exists |-> TRUE, version |-> 1,
    accounts |-> [i \in 1..Len(accs) |-> accountMetadata(accs[i])],
    activeIndex |-> cur ]

\* the document saveToDisk passes to saveUsage
UsageDocument(u) == [exists |-> TRUE, version |-> 1, usage |-> u]

\* the default documents ensureFileExists writes
DefaultAccountDocument ==
  [exists |-> TRUE, version |-> 1, accounts |-> <<>>, activeIndex |-> -1]

DefaultUsageDocument == [exists |-> TRUE, version |-> 1, usage |-> <<>>]

\* ensureFileExists followed by readFile and JSON.parse
loadAccounts(doc) == IF doc.exists THEN doc ELSE DefaultAccountDocument

loadUsage(doc) == IF doc.exists THEN doc ELSE DefaultUsageDocument

\* loadFromDisk: the ManagedAccount built from one stored entry
managedAccount(meta) ==
  [ id |-> meta.id, email |-> meta.email, authMethod |-> meta.authMethod,
    region |-> IF Truthy(meta.region) THEN meta.region ELSE DEFAULT_REGION,
    profileArn |-> meta.profileArn, clientId |-> meta.clientId,
    clientSecret |-> meta.clientSecret, refreshToken |-> meta.refreshToken,
    accessToken |-> meta.accessToken, expiresAt |-> meta.expiresAt,
    rateLimitResetTime |-> meta.rateLimitResetTime,
    isHealthy |-> meta.isHealthy, unhealthyReason |-> meta.unhealthyReason,
    recoveryTime |-> meta.recoveryTime,
    lastUsed |-> NONE, usedCount |-> NONE, limitCount |-> NONE,
    realEmail |-> NONE ]

\* the constructor's merge of the usage map into one account
mergeUsage(account, u) ==
  IF account.id \in DOMAIN u
  THEN [account EXCEPT !.usedCount = u[account.id].usedCount,
                       !.limitCount = u[account.id].limitCount,
                       !.realEmail = u[account.id].realEmail]
  ELSE account

\* the account list of the AccountManager loadFromDisk returns
loadFromDisk(adoc, udoc) ==
  [i \in 1..Len(loadAccounts(adoc).accounts) |->
     mergeUsage(managedAccount(loadAccounts(adoc).accounts[i]),
                loadUsage(udoc).usage)]

\* saveToDisk(), both saves succeeding
Flush ==
  /\ diskAccounts' = AccountDocument(accounts, cursor)
  /\ diskUsage' = UsageDocument(usage)
  /\ last' = Observe("flush", NoAccount)
  /\ run' = <<>>
  /\ prev' = prev
  /\ UNCHANGED <<accounts, usage, cursor, strategy, now, added>>
  /\ UNCHANGED <<quotaVars, storeVars>>

\* a restart: loadFromDisk(strategy) replaces the pool by the one it builds.
\* The observation records whether the call before was a saveToDisk.
Load ==
  /\ accounts' = loadFromDisk(diskAccounts, diskUsage)
  /\ usage' = loadUsage(diskUsage).usage
  /\ cursor' = 0
  /\ diskAccounts' = loadAccounts(diskAccounts)
  /\ diskUsage' = loadUsage(diskUsage)
  /\ last' = Observe("load", IF last.op = "flush" THEN 1 ELSE 0)
  /\ run' = <<>>
  /\ prev' = Track(NoPrev)
  /\ added' = IdsOf(loadFromDisk(diskAccounts, diskUsage))
  /\ UNCHANGED <<strategy, now>>
  /\ UNCHANGED <<quotaVars, storeVars>>

InitPersist ==
  /\ InitPool
  /\ strategy \in Strategies
  /\ InitQuotaIdle
  /\ InitStoreIdle

NextPersist ==
  \/ Select
  \/ \E id \in PersistIds : \E rt \in {NONE, 1} : MarkUnhealthy(id, 1, rt)
  \/ \E id \in PersistIds : MarkRateLimited(id, 1)
  \/ \E id \in PersistIds : AddAccount(NewAccount(id))
  \/ \E id \in PersistIds : RemoveAccount(id)
  \/ \E id \in PersistIds : \E m \in Snapshots : UpdateUsage(id, m)
  \/ \E id \in PersistIds : \E a \in AuthDetails : UpdateFromAuth(id, a)
  \/ Flush
  \/ Load

SpecPersist == InitPersist /\ [][NextPersist]_vars

-----------------------------------------------------------------------------
(* Save followed by reload *)

\* the credential and health fields of an account
CredentialAndHealth(account) ==
  << account.id, account.email, account.authMethod, account.region,
     account.profileArn, account.clientId, account.clientSecret,
     account.refreshToken, account.accessToken, account.expiresAt,
     account.rateLimitResetTime, account.isHealthy,
     account.unhealthyReason, account.recoveryTime >>

\* a reload that directly follows a save of this pool
ReloadAfterFlush == last.op = "flush" /\ last'.op = "load"

\* the counter a reload gives an account: the usage record's, else unset
RecordedUsed(id) == IF id \in DOMAIN usage THEN usage[id].usedCount ELSE NONE

RecordedLimit(id) == IF id \in DOMAIN usage THEN usage[id].limitCount ELSE NONE

\* C7 as stated: a save followed by a reload gives every account the same
\* credential and health fields, and the usedCount and limitCount the live
\* account had when it was saved.
C7_AsClaimed ==
  [][ReloadAfterFlush =>
       /\ Len(accounts') = Len(accounts)
       /\ \A i \in 1..Len(accounts) :
            /\ CredentialAndHealth(accounts'[i]) = CredentialAndHealth(accounts[i])
            /\ accounts'[i].usedCount = accounts[i].usedCount
            /\ accounts'[i].limitCount = accounts[i].limitCount]_vars

\* C7: a save followed by a reload gives every account, in the same order,
\* the same credential and health fields as before the save; its usedCount
\* and limitCount are those of its usage record at the time of the save
\* (what the last usage sync wrote, without the selections counted since),
\* and are unset when the account has no usage record.
C7_RoundTrip ==
  [][ReloadAfterFlush =>
       /\ Len(accounts') = Len(accounts)
       /\ \A i \in 1..Len(accounts) :
            /\ CredentialAndHealth(accounts'[i]) = CredentialAndHealth(accounts[i])
            /\ accounts'[i].usedCount = RecordedUsed(accounts[i].id)
            /\ accounts'[i].limitCount = RecordedLimit(accounts[i].id)]_vars

\* a pool reloaded right after a save, holding an unhealthy, rate-limited
\* account with refreshed credentials and synced counters
C7_Witness ==
  /\ last = Observe("load", 1)
  /\ Len(accounts) = 1
  /\ ~accounts[1].isHealthy
  /\ accounts[1].recoveryTime # NONE
  /\ accounts[1].rateLimitResetTime # NONE
  /\ accounts[1].accessToken = 2
  /\ accounts[1].usedCount = 1
  /\ accounts[1].limitCount = 2

-----------------------------------------------------------------------------
(* getMinWaitTime *)

MaxReset == 4      \* rateLimitResetTime of a given pool is drawn from 1..MaxReset

\* the filter (t => t > 0) left out
positiveWaitsAll(waits) == waits

\* waitTimes.filter(t => t > 0)
positiveWaits(waits) == [i \in {j \in DOMAIN waits : waits[j] > 0} |-> waits[i]]

\* Math.min(...waitTimes) of a non-empty collection
MathMin(waits) ==
  CHOOSE w \in {waits[i] : i \in DOMAIN waits} :
    \A i \in DOMAIN waits : w <= waits[i]

\* getMinWaitTime() with the clock reading t
getMinWaitTime(accs, t) ==
  LET waitTimes ==
        positiveWaits([i \in 1..Len(accs) |->
                         OrZero(accs[i].rateLimitResetTime) - t])
  IN IF DOMAIN waitTimes # {} THEN MathMin(waitTimes) ELSE 0

\* a call of getMinWaitTime(); the observation keeps the number returned
GetMinWaitTime ==
  /\ last' = [op |-> "minWait", id |-> getMinWaitTime(accounts, now)]
  /\ run' = <<>>
  /\ prev' = prev
  /\ UNCHANGED <<accounts, usage, cursor, strategy, now, added>>
  /\ UNCHANGED nonPoolVars

\* an account markRateLimited has (r a time) or has not (r = NONE) touched
LimitedAccount(id, r) == [NewAccount(id) EXCEPT !.rateLimitResetTime = r]

\* the pools of at most two such accounts
RateLimitedPools ==
  LET Resets == {NONE} \cup 1..MaxReset
  IN { <<>> }
     \cup { <<LimitedAccount(i, r)>> : i \in Ids, r \in Resets }
     \cup { pool \in { <<LimitedAccount(i, r), LimitedAccount(j, q)>> :
                         i \in Ids, j \in Ids, r \in Resets, q \in Resets } :
              pool[1].id # pool[2].id }

InitWait ==
  /\ accounts \in RateLimitedPools
  /\ usage = <<>>
  /\ cursor = 0
  /\ strategy = "sticky"
  /\ now \in Times
  /\ last = Observe("new", NoAccount)
  /\ run = <<>>
  /\ prev = Untracked
  /\ added = IdsOf(accounts)
  /\ InitQuotaIdle
  /\ InitStoreIdle

NextWait ==
  \/ GetMinWaitTime
  \/ Tick

SpecWait == InitWait /\ [][NextWait]_vars

\* the positions of the accounts whose rateLimitResetTime lies after now
StillLimited ==
  { i \in 1..Len(accounts) :
      accounts[i].rateLimitResetTime # NONE /\ accounts[i].rateLimitResetTime > now }

\* C11: getMinWaitTime returns 0 when no account has a rateLimitResetTime
\* greater than now; otherwise it returns the least rateLimitResetTime - now
\* over exactly the accounts whose rateLimitResetTime is greater than now.
\* The result is never negative.
C11_MinWait ==
  last.op = "minWait" =>
    /\ last.id >= 0
    /\ StillLimited = {} => last.id = 0
    /\ StillLimited # {} =>
         /\ \E i \in StillLimited : last.id = accounts[i].rateLimitResetTime - now
         /\ \A i \in StillLimited : last.id <= accounts[i].rateLimitResetTime - now

\* getMinWaitTime answered for a pool of two accounts that are both still
\* limited, with different waits, the second one the shorter
C11_Witness ==
  /\ last.op = "minWait"
  /\ Len(accounts) = 2
  /\ Cardinality(StillLimited) = 2
  /\ accounts[1].rateLimitResetTime # accounts[2].rateLimitResetTime
  /\ last.id = accounts[2].rateLimitResetTime - now

-----------------------------------------------------------------------------
(* Further properties of getCurrentOrNext *)

\* the step is a call of getCurrentOrNext
IsSelect == last'.op = "select"

\* the fields of an account a selection or the filter can write
SelectionFields(account) ==
  << account.usedCount, account.lastUsed, account.isHealthy,
     account.unhealthyReason, account.recoveryTime,
     account.rateLimitResetTime >>

\* C12: when no account of the pool is eligible at now (the pool may be
\* empty), getCurrentOrNext returns null and leaves the cursor and every
\* account's usedCount, lastUsed, health and rate-limit fields as they were.
C12_NoneEligible ==
  [][ (IsSelect /\ EligiblePositions(accounts, now) = {}) =>
        /\ last'.id = NoAccount
        /\ cursor' = cursor
        /\ Len(accounts') = Len(accounts)
        /\ \A i \in 1..Len(accounts) :
             SelectionFields(accounts'[i]) = SelectionFields(accounts[i]) ]_vars

-----------------------------------------------------------------------------
(* Failures in the locked section *)

\* C13: a save that gives up on the lock after all retries throws to its
\* caller and has not changed the content of the target file: it has not
\* written over a document that a save had put there.
C13_LockFailureLeavesFile ==
  \A q \in Procs :
    (proc[q].failed /\ proc[q].cause = "lock") => ~proc[q].clobbered

\* process q leaves withFileLock in this step, the lock having been acquired
WithLockCompletes(q) == proc[q].pc = "release" /\ proc'[q].pc # "release"

\* the caller gets what the locked function produced: its error if it threw,
\* else a completed save
ResultStands(q) ==
  IF proc[q].err
  THEN /\ proc'[q].failed /\ proc'[q].cause = "fn"
       /\ completed' = completed
  ELSE /\ ~proc'[q].failed
       /\ Doc(q, proc[q].n) \in completed'[proc[q].path]

\* C14 as stated: whenever withFileLock completes after acquiring the lock,
\* the locked function having returned or thrown, the caller no longer holds
\* the lock, and the caller gets the function's result or error even when
\* release() throws.
C14_AsClaimed ==
  [][ \A q \in Procs :
        WithLockCompletes(q) =>
          /\ lock'[proc[q].path] # q
          /\ ResultStands(q) ]_vars

\* C14: whenever withFileLock completes after acquiring the lock, the locked
\* function having returned or thrown, release() has been called; the caller
\* no longer holds the lock unless release() itself threw; and the caller gets
\* the function's result or error even when release() throws.
C14_ReleaseAlways ==
  [][ \A q \in Procs :
        WithLockCompletes(q) =>
          /\ proc[q].path \notin proc'[q].relFailed => lock'[proc[q].path] # q
          /\ ResultStands(q) ]_vars

\* one save has thrown the error of its locked function and left no lock
\* behind; the release of another threw, and its document counts as saved
C14_Witness ==
  \E q, r \in Procs :
    /\ proc[q].failed /\ proc[q].cause = "fn" /\ proc[q].relFailed = {}
    /\ lock[proc[q].path] # q
    /\ "accounts" \in proc[r].relFailed
    /\ Doc(r, 1) \in completed["accounts"]

-----------------------------------------------------------------------------
(* The pool with usage syncs and credential refreshes *)

\* the snapshot and the refreshed details used in these runs: no address in
\* the snapshot, none and no new profile or client id in the details
SyncSnapshots == { m \in Snapshots : m.realEmail = NONE }

SyncAuth == { a \in AuthDetails : a.email = NONE /\ a.profileArn = NONE }

InitSync == Init

\* the calls of the pool specification (recovery never or at the end of the
\* run), and usage syncs and credential refreshes for the accounts
\* with an id in PersistIds
NextSync ==
  \/ Select
  \/ Tick
  \/ \E id \in Ids : \E rt \in {NONE, MaxTime} : MarkUnhealthy(id, 1, rt)
  \/ \E id \in Ids : \E ms \in 1..MaxRetry : MarkRateLimited(id, ms)
  \/ \E id \in Ids : AddAccount(NewAccount(id))
  \/ \E id \in Ids : RemoveAccount(id)
  \/ \E id \in PersistIds : \E m \in SyncSnapshots : UpdateUsage(id, m)
  \/ \E id \in PersistIds : \E a \in SyncAuth : UpdateFromAuth(id, a)

SpecSync == InitSync /\ [][NextSync]_vars

-----------------------------------------------------------------------------
(* Properties of the usage map *)

\* the ids of the entries of a saved account document
DocumentIds(doc) == { doc.accounts[i].id : i \in 1..Len(doc.accounts) }

\* C15: every key of the usage map is the id of an account of the pool, and
\* so the usage document a saveToDisk has just written holds no record for an
\* id that the account document of the same save does not hold.
C15_NoOrphans ==
  /\ DOMAIN usage \subseteq IdsOf(accounts)
  /\ last.op = "flush" =>
       DOMAIN diskUsage.usage \subseteq DocumentIds(diskAccounts)

-----------------------------------------------------------------------------
(* Health *)

\* unhealthy with no recovery time
Permanent(account) == ~account.isHealthy /\ account.recoveryTime = NONE

\* the step is an addAccount, a removeAccount or a markUnhealthy for this id
Intervention(id) ==
  last'.op \in {"addAccount", "removeAccount", "markUnhealthy"} /\ last'.id = id

\* C16: a markUnhealthy without recoveryTime leaves the account unhealthy
\* with no recovery time, whatever recovery time it had before; and an
\* account in that condition stays in it and is not returned by
\* getCurrentOrNext, through any passage of time and any getCurrentOrNext,
\* markRateLimited, updateUsage and updateFromAuth, until an addAccount with
\* the same id replaces it (or it is removed, or a markUnhealthy gives it a
\* recovery time).
C16_NeverSelfRecovers ==
  [][ /\ (last'.op = "markUnhealthy" /\ last'.arg = NONE
            /\ findIndex(accounts, last'.id) # 0) =>
           Permanent(accounts'[findIndex(accounts, last'.id)])
      /\ \A i \in 1..Len(accounts) :
           (Permanent(accounts[i]) /\ ~Intervention(accounts[i].id)) =>
             /\ findIndex(accounts', accounts[i].id) # 0
             /\ Permanent(accounts'[findIndex(accounts', accounts[i].id)])
             /\ ~(IsSelect /\ last'.id = accounts[i].id) ]_vars

\* at the end of the run the first account, refreshed, synced and once rate
\* limited, is still unhealthy with no recovery time, and a getCurrentOrNext
\* has just returned the other account
C16_Witness ==
  /\ now = MaxTime
  /\ Len(accounts) = 2
  /\ accounts[1].id = 1
  /\ Permanent(accounts[1])
  /\ accounts[1].accessToken = 2
  /\ accounts[1].limitCount = 2
  /\ accounts[1].rateLimitResetTime # NONE
  /\ last = Observe("select", 2)

-----------------------------------------------------------------------------
(* Local counting and usage syncs *)

\* C17: a getCurrentOrNext that returns an account, under any strategy, sets
\* that account's lastUsed to now and adds 1 to its usedCount (unset counting
\* as 0), changes no other account's usedCount or lastUsed and leaves the
\* usage map alone; an updateUsage for that account right after it replaces
\* the incremented usedCount by the snapshot's.
C17_LocalCount ==
  [][ /\ (IsSelect /\ last'.id # NoAccount) =>
           LET w == findIndex(accounts, last'.id)
           IN /\ Len(accounts') = Len(accounts)
              /\ accounts'[w].lastUsed = now
              /\ accounts'[w].usedCount = OrZero(accounts[w].usedCount) + 1
              /\ \A i \in (1..Len(accounts)) \ {w} :
                   /\ accounts'[i].usedCount = accounts[i].usedCount
                   /\ accounts'[i].lastUsed = accounts[i].lastUsed
              /\ usage' = usage
      /\ (Returned /\ last'.op = "updateUsage" /\ last'.id = last.id) =>
           accounts'[findIndex(accounts, last.id)].usedCount
             = usage'[last.id].usedCount ]_vars

\* under lowest-usage the first account, synced earlier (limitCount known),
\* has just been returned for the second time since, the other account
\* having been returned once
C17_Witness ==
  /\ strategy = "lowest-usage"
  /\ last = Observe("select", 1)
  /\ Len(accounts) = 2
  /\ accounts[1].id = 1
  /\ accounts[1].limitCount = 2
  /\ accounts[1].usedCount = 2
  /\ accounts[2].usedCount = 1
  /\ usage[1].usedCount = 1


\* C18: after an updateUsage for an account of the pool, the account and its
\* usage record hold the same usedCount and limitCount and the same
\* realEmail, the record's lastSync is now, and the account's credential,
\* health and rate-limit fields and the cursor are as before.
C18_SyncAgrees ==
  [][ (last'.op = "updateUsage" /\ findIndex(accounts, last'.id) # 0) =>
        LET i == findIndex(accounts, last'.id)
            record == usage'[last'.id]
        IN /\ accounts'[i].usedCount = record.usedCount
           /\ accounts'[i].limitCount = record.limitCount
           /\ accounts'[i].realEmail = record.realEmail
           /\ record.lastSync = now
           /\ CredentialAndHealth(accounts'[i]) = CredentialAndHealth(accounts[i])
           /\ cursor' = cursor ]_vars

-----------------------------------------------------------------------------
(* The cursor *)

\* the cursor is a position of the list, or 0 when the list is empty
CursorInRange ==
  IF Len(accounts) = 0 THEN cursor = 0
  ELSE 0 <= cursor /\ cursor < Len(accounts)

\* what removeAccount does to the usage map and the cursor
RemovalClamps ==
  last'.op = "removeAccount" =>
    /\ last'.id \notin DOMAIN usage'
    /\ cursor' = IF Len(accounts') = 0 THEN 0
                 ELSE IF cursor >= Len(accounts') THEN Len(accounts') - 1
                 ELSE cursor

\* C19: in every reachable state, under every strategy, the cursor is a
\* valid position: 0 <= cursor < length of the pool, or 0 when the pool is
\* empty (so round-robin never moves it past the end). removeAccount deletes
\* the account's usage record and leaves the cursor at length - 1 if it fell
\* out of range, at 0 if the pool became empty.
C19_CursorValid == []CursorInRange /\ [][RemovalClamps]_vars

\* the first of two accounts, which had a usage record, has just been
\* removed; the one that is left had been returned by a selection
C19_Witness ==
  /\ last = Observe("removeAccount", 1)
  /\ Len(accounts) = 1
  /\ accounts[1].id = 2
  /\ accounts[1].usedCount = 1
  /\ accounts[1].lastUsed = 1
  /\ now = MaxTime
  /\ cursor = 0

-----------------------------------------------------------------------------
(* Lazy recovery *)

\* unhealthy, with a recovery time that has passed at t
Recoverable(account, t) ==
  ~account.isHealthy /\ account.recoveryTime # NONE /\ t >= account.recoveryTime

\* C20: a getCurrentOrNext called at now leaves every unhealthy account whose
\* recoveryTime is set and has passed healthy, with unhealthyReason and
\* recoveryTime cleared, whether it returns that account or not; and it
\* leaves every unhealthy account whose recoveryTime is unset or still to
\* come as it was.
C20_LazyRecovery ==
  [][ IsSelect =>
        /\ Len(accounts') = Len(accounts)
        /\ \A i \in 1..Len(accounts) :
             /\ Recoverable(accounts[i], now) =>
                  /\ accounts'[i].isHealthy
                  /\ accounts'[i].unhealthyReason = NONE
                  /\ accounts'[i].recoveryTime = NONE
             /\ (~accounts[i].isHealthy /\ ~Recoverable(accounts[i], now)) =>
                  accounts'[i] = accounts[i] ]_vars

-----------------------------------------------------------------------------
(* The lock of a path and the locked write section.                          *)

\* C21 as stated: at any time at most one process is inside the locked write
\* section (temporary-file write and rename) of a path.
C21_AsClaimed ==
  \A f \in Paths : \A q, r \in Procs :
    (InSection(q, f) /\ InSection(r, f)) => q = r

\* two processes are inside the locked write section of path f
Overlap(f) ==
  \E q, r \in Procs : q # r /\ InSection(q, f) /\ InSection(r, f)

\* the lock of path f was taken from a process that was inside withFileLock
TakenFromInside(f) == \E p \in Procs : f \in proc[p].lost

\* a held lock changes hands only when it is older than LOCK_STALE
TakeoverOnlyStale ==
  \A f \in Paths :
    (lock[f] # 0 /\ lock'[f] # 0 /\ lock'[f] # lock[f])
      => f \in proc[lock[f]].stale

\* C21: a held lock is taken over only when it is older than the 10-second
\* staleness timeout, and at most one process is inside the locked write
\* section of a path as long as no lock of that path was taken over from a
\* process that was still inside withFileLock.
C21_ExclusionUntilTakeover ==
  /\ [](\A f \in Paths : Overlap(f) => TakenFromInside(f))
  /\ [][TakeoverOnlyStale]_vars

\* a process is inside the locked write section under a lock it took over
\* from a process that died inside the same section, while another process is
\* kept waiting for that lock
C21_Witness ==
  \E f \in Paths : \E q, r \in Procs :
    /\ q # r
    /\ InSection(q, f) /\ lock[f] = q
    /\ proc[r].op = "crashed" /\ proc[r].path = f
    /\ proc[r].at \in {"temp", "rename"}

-----------------------------------------------------------------------------
(* saveToDisk: the account document, then the usage document.                *)

\* the document of the call process q is making or made last
Current(q) == Doc(q, proc[q].n)

\* the account-document save of the call has returned
AccountsSaved(q) == Current(q) \in completed["accounts"]

\* the process died after its account-document save had returned and before
\* the rename of its usage-document save
CrashedBetween(q) ==
  /\ proc[q].op = "crashed"
  /\ proc[q].path = "usage"
  /\ proc[q].at \in {"access", "create", "fill", "lock", "temp", "rename"}

\* process q is making, or made last, a call of saveToDisk
Flushes(q) == proc[q].call = "flush"

\* C22: a flush writes to the usage path only after its account-document save
\* has replaced the account document and returned; a flush whose
\* account-document save failed has written nothing to the usage path; a
\* process that crashed between the two saves has replaced the account
\* document and has not put its usage document at the usage path, and has
\* not written to the usage path at all when saveUsage had not yet started
\* on the file.
C22_AccountsThenUsage ==
  \A q \in { p \in Procs : Flushes(p) } :
    /\ "usage" \in proc[q].wrote => AccountsSaved(q)
    /\ (proc[q].failed /\ ~AccountsSaved(q))
         => /\ "usage" \notin proc[q].wrote
            /\ file["usage"] # Current(q)
            /\ Current(q) \notin completed["usage"]
    /\ CrashedBetween(q)
         => /\ AccountsSaved(q)
            /\ file["usage"] # Current(q)
            /\ Current(q) \notin completed["usage"]
            /\ proc[q].at = "access" => "usage" \notin proc[q].wrote

\* one process crashed between its two saves, its account document on disk,
\* and the account-document save of another process has failed
C22_Witness ==
  \E q, r \in Procs :
    /\ Flushes(q) /\ CrashedBetween(q) /\ file["accounts"] = Current(q)
    /\ Flushes(r) /\ proc[r].failed /\ ~AccountsSaved(r)

-----------------------------------------------------------------------------
(* Two concurrent calls of saveToDisk and the pair of documents they leave.  *)

\* process q called saveToDisk and the call has returned without throwing
Flushed(q) ==
  /\ Flushes(q)
  /\ proc[q].op = "idle"
  /\ ~proc[q].failed

\* every process has run saveToDisk to its end
AllFlushed == \A q \in Procs : Flushed(q)

\* C25 as stated: once the concurrent flushes have all returned, the account
\* document and the usage document on disk are those of the same flush.
C25_AsClaimed ==
  AllFlushed =>
    \E q \in Procs : file["accounts"] = Current(q) /\ file["usage"] = Current(q)

\* C25: once the concurrent flushes have all returned without failing, the
\* account document on disk is the account document of one of the flushes
\* and the usage document on disk is the usage document of one of the
\* flushes, not necessarily the same one.
C25_EachFromAFlush ==
  AllFlushed =>
    \A f \in Paths : \E q \in Procs : file[f] = Current(q)

\* both flushes have returned; the account document on disk is the one of
\* one process, the usage document the one of the other
C25_Witness ==
  /\ AllFlushed
  /\ \E q, r \in Procs :
       q # r /\ file["accounts"] = Current(q) /\ file["usage"] = Current(r)

-----------------------------------------------------------------------------
(* Two consecutive selections: the pool specification with the observation   *)
(* prev switched on.                                                         *)

InitTrack ==
  /\ accounts = <<>>
  /\ usage = <<>>
  /\ cursor = 0
  /\ now = 1
  /\ last = Observe("new", NoAccount)
  /\ run = <<>>
  /\ prev = NoPrev
  /\ added = {}
  /\ strategy \in Strategies
  /\ InitQuotaIdle
  /\ InitStoreIdle

SpecTrack == InitTrack /\ [][Next]_vars

-----------------------------------------------------------------------------
(* Session affinity under removal: a pool of MaxIds + 1 accounts.            *)

AffinityIds == 1..(MaxIds + 1)

InitAffinity ==
  /\ accounts = [i \in AffinityIds |-> NewAccount(i)]
  /\ usage = <<>>
  /\ cursor = 0
  /\ now = 1
  /\ last = Observe("new", NoAccount)
  /\ run = <<>>
  /\ prev = NoPrev
  /\ added = AffinityIds
  /\ strategy = "sticky"
  /\ InitQuotaIdle
  /\ InitStoreIdle

NextAffinity ==
  \/ Select
  \/ Tick
  \/ \E id \in AffinityIds : \E ms \in 1..MaxRetry : MarkRateLimited(id, ms)
  \/ \E id \in AffinityIds : RemoveAccount(id)

SpecAffinity == InitAffinity /\ [][NextAffinity]_vars

\* the account the last getCurrentOrNext returned is in the pool and available
PrevAvailable ==
  /\ prev.id # NoAccount
  /\ findIndex(accounts, prev.id) # 0
  /\ Eligible(accounts[findIndex(accounts, prev.id)], now)

\* C24: under sticky, a getCurrentOrNext that follows the removal of an
\* account other than the one most recently returned returns that account
\* again when it is still in the pool and available.
C24_AffinityAfterRemoval ==
  [][ ( /\ strategy = "sticky"
        /\ IsSelect
        /\ last.op = "removeAccount"
        /\ last.id # prev.id
        /\ PrevAvailable )
      => last'.id = prev.id ]_vars

====
